---- MODULE Spec2Model ----
(***************************************************************************)
(* Model of src/index.js: the per-tournament match cache of the Challonge  *)
(* places monitor (getMatchesData / updateMatches) and the normalisation   *)
(* of the two upstream payloads into the {active, pending} view model.     *)
(*                                                                         *)
(* Strings the code inspects character by character (station names,        *)
(* participant names) are sequences of one-character strings.              *)
(***************************************************************************)
EXTENDS Integers, Sequences, FiniteSets, TLC

VARIABLES
    matchesCache,     \* matchesCache: property key -> snapshot, or Undefined
    cacheTimestamps,  \* cacheTimestamps: property key -> Date.now() of the store
    now,              \* the value Date.now() returns
    req,              \* one record per HTTP request to "/"
    rawMatches,       \* normaliser input: matchesRes.data.data
    rawIncluded,      \* normaliser input: matchesRes.data.included
    rawStations,      \* normaliser input: stationsRes.data.data
    newData,          \* normaliser output: newData after both sorts
    phase             \* position of the normaliser run

vars == <<matchesCache, cacheTimestamps, now, req,
          rawMatches, rawIncluded, rawStations, newData, phase>>

cacheVars == <<matchesCache, cacheTimestamps, now, req>>
normVars == <<rawMatches, rawIncluded, rawStations, newData, phase>>

-----------------------------------------------------------------------------
(* JavaScript values *)

\* A JavaScript object is a function whose domain is the set of its property
\* keys: obj[k] is undefined exactly when k is no key of obj.
EmptyObject == [k \in {} |-> k]
Has(obj, k) == k \in DOMAIN obj
Put(obj, k, v) == [x \in DOMAIN obj \cup {k} |-> IF x = k THEN v ELSE obj[x]]

\* The absent string-valued property or argument.  Used as a property key it
\* is the key "undefined", as in JavaScript.
Undefined == "undefined"
Falsy(v) == v = Undefined \/ v = ""

\* Numbers: a finite integer, +Infinity, -Infinity, NaN, or the absent
\* numeric property.
Num(i) == [k |-> "number", n |-> i]
Infinity == [k |-> "Infinity", n |-> 0]
NegInfinity == [k |-> "-Infinity", n |-> 0]
NaN == [k |-> "NaN", n |-> 0]
UndefinedNumber == [k |-> "undefined", n |-> 0]

\* Character strings: sequences of one-character strings.  The absent and
\* the empty string are both <<>>: the code reads such a value only on the
\* left of ||, where both are falsy.
NoString == <<>>
UndefinedKey == <<"u", "n", "d", "e", "f", "i", "n", "e", "d">>

Digits == {"0", "1", "2", "3", "4", "5", "6", "7", "8", "9"}

DigitVal ==
    [c \in Digits |->
        CASE c = "0" -> 0 [] c = "1" -> 1 [] c = "2" -> 2 [] c = "3" -> 3
          [] c = "4" -> 4 [] c = "5" -> 5 [] c = "6" -> 6 [] c = "7" -> 7
          [] c = "8" -> 8 [] c = "9" -> 9]

\* ToNumber of a numeric property value: undefined becomes NaN
ToNumber(v) == IF v = UndefinedNumber THEN NaN ELSE v

\* a - b
JsMinus(a, b) ==
    LET x == ToNumber(a)
        y == ToNumber(b)
    IN  CASE x = NaN \/ y = NaN -> NaN
          [] x = Infinity /\ y = Infinity -> NaN
          [] x = NegInfinity /\ y = NegInfinity -> NaN
          [] x = Infinity \/ y = NegInfinity -> Infinity
          [] x = NegInfinity \/ y = Infinity -> NegInfinity
          [] OTHER -> Num(x.n - y.n)

\* The sign Array.prototype.sort reads from a comparator's result: NaN
\* counts as +0.
SortCompare(v) ==
    CASE v = NaN -> 0
      [] v = Infinity -> 1
      [] v = NegInfinity -> -1
      [] v.n > 0 -> 1
      [] v.n < 0 -> -1
      [] OTHER -> 0

-----------------------------------------------------------------------------
(* getTableNumber *)

\* index of the first digit of s at or after i, 0 when there is none
RECURSIVE FirstDigit(_, _)
FirstDigit(s, i) ==
    IF i > Len(s) THEN 0
    ELSE IF s[i] \in Digits THEN i
    ELSE FirstDigit(s, i + 1)

\* parseInt of the digit run of s that starts at i, acc the value so far
RECURSIVE ParseRun(_, _, _)
ParseRun(s, i, acc) ==
    IF i > Len(s) \/ s[i] \notin Digits THEN acc
    ELSE ParseRun(s, i + 1, acc * 10 + DigitVal[s[i]])

\* bug: only the first digit is read, so "Table 10" counts as table 1
getTableNumberFirstDigit(stationName) ==
    LET i == FirstDigit(stationName, 1)
    IN  IF i = 0 THEN Infinity ELSE Num(DigitVal[stationName[i]])

getTableNumber(stationName) ==
    LET i == FirstDigit(stationName, 1)
    IN  IF i = 0 THEN Infinity ELSE Num(ParseRun(stationName, i, 0))

-----------------------------------------------------------------------------
(* Array.prototype.sort, as the engine that runs the code sorts an array    *)
(* shorter than 64 elements: the leading run is found (and reversed when   *)
(* strictly descending), then each further element is placed by binary     *)
(* insertion.  The array is handled as the sequence of its positions, the   *)
(* comparator as f: f[i, j] is the sign the sort reads from the comparator *)
(* called on the elements at positions i and j.                            *)

Reverse(a) == [i \in 1..Len(a) |-> a[Len(a) + 1 - i]]

\* the last index of the run that a[1], a[2] start, looking on from idx
RECURSIVE ExtendRun(_, _, _, _)
ExtendRun(a, f, idx, descending) ==
    IF idx > Len(a) THEN idx - 1
    ELSE LET order == f[a[idx], a[idx - 1]]
         IN  IF (descending /\ order >= 0) \/ (~descending /\ order < 0)
             THEN idx - 1
             ELSE ExtendRun(a, f, idx + 1, descending)

\* the index, in left..right, at which pivot goes into the sorted a[left..right-1]
RECURSIVE InsertionPoint(_, _, _, _, _)
InsertionPoint(a, f, pivot, left, right) ==
    IF left >= right THEN left
    ELSE LET mid == left + ((right - left) \div 2)
         IN  IF f[pivot, a[mid]] < 0
             THEN InsertionPoint(a, f, pivot, left, mid)
             ELSE InsertionPoint(a, f, pivot, mid + 1, right)

\* a with a[start], a[start+1], ... inserted one by one into a[1..start-1]
RECURSIVE BinaryInsertionSort(_, _, _)
BinaryInsertionSort(a, f, start) ==
    IF start > Len(a) THEN a
    ELSE LET at == InsertionPoint(a, f, a[start], 1, start)
         IN  BinaryInsertionSort(
                SubSeq(a, 1, at - 1) \o <<a[start]>> \o SubSeq(a, at, start - 1)
                    \o SubSeq(a, start + 1, Len(a)),
                f, start + 1)

SortPositions(n, f) ==
    LET a == [i \in 1..n |-> i]
    IN  IF n < 2 THEN a
        ELSE LET descending == f[a[2], a[1]] < 0
                 run == ExtendRun(a, f, 3, descending)
                 b == IF descending
                      THEN Reverse(SubSeq(a, 1, run)) \o SubSeq(a, run + 1, n)
                      ELSE a
             IN  BinaryInsertionSort(b, f, run + 1)

\* s.sort(comparator), f the comparator's signs on s
ArraySort(s, f) ==
    LET p == SortPositions(Len(s), f)
    IN  [i \in 1..Len(s) |-> s[p[i]]]

-----------------------------------------------------------------------------
(* updateMatches, the processing of the two responses: lines 56-98 *)

InvitationPending ==
    <<" ", "(", "i", "n", "v", "i", "t", "a", "t", "i", "o", "n", " ",
      "p", "e", "n", "d", "i", "n", "g", ")">>
Spieler == <<"S", "p", "i", "e", "l", "e", "r", " ">>
Tisch == <<"T", "i", "s", "c", "h", " ">>
TischUnknown == <<"T", "i", "s", "c", "h", " ", "?">>
PlayerUnknown == <<"?">>

\* index of the first occurrence of pat in s at or after i, 0 when none
RECURSIVE IndexOf(_, _, _)
IndexOf(s, pat, i) ==
    IF i + Len(pat) - 1 > Len(s) THEN 0
    ELSE IF SubSeq(s, i, i + Len(pat) - 1) = pat THEN i
    ELSE IndexOf(s, pat, i + 1)

\* s.replace(pat, ""): the first occurrence only
ReplaceFirst(s, pat) ==
    LET i == IndexOf(s, pat, 1)
    IN  IF i = 0 THEN s
        ELSE SubSeq(s, 1, i - 1) \o SubSeq(s, i + Len(pat), Len(s))

\* a || b on strings
OrElse(a, b) == IF a = NoString THEN b ELSE a

\* bug: a reference that resolves to nothing is shown as it is
LookupOrKey(obj, k, b) == IF Has(obj, k) THEN OrElse(obj[k], b) ELSE k

\* obj[k] || b
Lookup(obj, k, b) == IF Has(obj, k) THEN OrElse(obj[k], b) ELSE b

\* bug: the marker is left in the name
ParticipantNameUnstripped(item) == OrElse(item.name, Spieler \o item.id)

ParticipantName(item) ==
    OrElse(ReplaceFirst(item.name, InvitationPending), Spieler \o item.id)

RECURSIVE BuildParticipants(_, _, _)
BuildParticipants(included, i, participants) ==
    IF i > Len(included) THEN participants
    ELSE BuildParticipants(included, i + 1,
            IF included[i].type = "participant"
            THEN Put(participants, included[i].id, ParticipantName(included[i]))
            ELSE participants)

StationName(station) == OrElse(station.name, Tisch \o station.id)

RECURSIVE BuildStations(_, _, _)
BuildStations(list, i, stations) ==
    IF i > Len(list) THEN stations
    ELSE BuildStations(list, i + 1,
            Put(stations, list[i].id, StationName(list[i])))

\* matchData; underwayAt and startedAt are copied through and left out
MatchData(match, stations, participants) ==
    [id |-> match.id,
     station |-> Lookup(stations, match.station, TischUnknown),
     player1 |-> Lookup(participants, match.player1, PlayerUnknown),
     player2 |-> Lookup(participants, match.player2, PlayerUnknown),
     state |-> match.state,
     suggestedPlayOrder |-> match.suggestedPlayOrder]

\* bug: every match that is not open is taken as pending
BucketElsePending(state) == IF state = "open" THEN "active" ELSE "pending"

\* the list a match of this state is pushed to: lines 85-89
Bucket(state) ==
    CASE state = "open" -> "active"
      [] state = "pending" -> "pending"
      [] OTHER -> "none"

\* the forEach of lines 73-90
RECURSIVE Classify(_, _, _, _, _)
Classify(matches, i, stations, participants, acc) ==
    IF i > Len(matches) THEN acc
    ELSE LET md == MatchData(matches[i], stations, participants)
             to == Bucket(matches[i].state)
         IN  Classify(matches, i + 1, stations, participants,
                CASE to = "active" -> [acc EXCEPT !.active = Append(@, md)]
                  [] to = "pending" -> [acc EXCEPT !.pending = Append(@, md)]
                  [] OTHER -> acc)

ActiveCompare(a, b) ==
    JsMinus(getTableNumber(a.station), getTableNumber(b.station))

PendingCompare(a, b) == JsMinus(a.suggestedPlayOrder, b.suggestedPlayOrder)

ActiveSigns(s) ==
    [i \in 1..Len(s), j \in 1..Len(s) |-> SortCompare(ActiveCompare(s[i], s[j]))]

PendingSigns(s) ==
    [i \in 1..Len(s), j \in 1..Len(s) |-> SortCompare(PendingCompare(s[i], s[j]))]

EmptySnapshot == [active |-> <<>>, pending |-> <<>>]

\* newData at line 100
UpdateResult(matches, included, stationList) ==
    LET participants == BuildParticipants(included, 1, EmptyObject)
        stations == BuildStations(stationList, 1, EmptyObject)
        unsorted == Classify(matches, 1, stations, participants, EmptySnapshot)
    IN  [active |-> ArraySort(unsorted.active, ActiveSigns(unsorted.active)),
         pending |-> ArraySort(unsorted.pending, PendingSigns(unsorted.pending))]

-----------------------------------------------------------------------------
(* The upstream payloads the normaliser is run on *)

MaxMatches == 3

MatchStates == {"open", "pending", "complete", Undefined}
StationRefs == {<<"7">>, <<"8">>, UndefinedKey}
PlayOrders == {Num(1), Num(2), UndefinedNumber}

\* The match records with identifier n.  A field no sort reads for the
\* list the record goes to takes two values for an open or pending match
\* and one for a dropped match.
RawMatches(n) ==
    [id : {n}, state : {"open"}, station : StationRefs,
     player1 : {<<"5">>}, player2 : {UndefinedKey},
     suggestedPlayOrder : {Num(1), UndefinedNumber}]
    \cup
    [id : {n}, state : {"pending"}, station : {<<"7">>, UndefinedKey},
     player1 : {<<"5">>}, player2 : {UndefinedKey},
     suggestedPlayOrder : PlayOrders]
    \cup
    [id : {n}, state : MatchStates \ {"open", "pending"}, station : {<<"8">>},
     player1 : {<<"5">>}, player2 : {UndefinedKey},
     suggestedPlayOrder : {UndefinedNumber}]

\* stations.json: station 7 is "Table 2", station 8 is "Table 10"
StationsTables ==
    << [id |-> <<"7">>, name |-> <<"T", "a", "b", "l", "e", " ", "2">>],
       [id |-> <<"8">>, name |-> <<"T", "a", "b", "l", "e", " ", "1", "0">>] >>

\* stations.json: station 7 has no name, station 8 is "Court"
StationsCourt ==
    << [id |-> <<"7">>, name |-> NoString],
       [id |-> <<"8">>, name |-> <<"C", "o", "u", "r", "t">>] >>

StationPayloads == {StationsTables, StationsCourt}

\* included: participant 5 "Jane (invitation pending)", a participant
\* without a name, and an entity of another type
IncludedJane ==
    << [type |-> "participant", id |-> <<"5">>,
        name |-> <<"J", "a", "n", "e">> \o InvitationPending],
       [type |-> "participant", id |-> <<"6">>, name |-> NoString],
       [type |-> "tournament", id |-> <<"9">>, name |-> <<"X">>] >>

NormInit ==
    /\ matchesCache = EmptyObject
    /\ cacheTimestamps = EmptyObject
    /\ now = 1
    /\ req = <<>>
    /\ rawMatches = <<>>
    /\ rawIncluded = IncludedJane
    /\ rawStations \in StationPayloads
    /\ newData = EmptySnapshot
    /\ phase = "input"

\* the upstream holds one more match record
AddMatch ==
    /\ phase = "input"
    /\ Len(rawMatches) < MaxMatches
    /\ \E m \in RawMatches(Len(rawMatches) + 1) :
            rawMatches' = Append(rawMatches, m)
    /\ UNCHANGED <<rawIncluded, rawStations, newData, phase>>
    /\ UNCHANGED cacheVars

\* lines 56-98 run on the payloads
Normalize ==
    /\ phase = "input"
    /\ newData' = UpdateResult(rawMatches, rawIncluded, rawStations)
    /\ phase' = "sorted"
    /\ UNCHANGED <<rawMatches, rawIncluded, rawStations>>
    /\ UNCHANGED cacheVars

NormNext == AddMatch \/ Normalize

SpecNorm == NormInit /\ [][NormNext]_vars

-----------------------------------------------------------------------------
(* The cache: getMatchesData, updateMatches and the "/" route *)

MaxRequests == 2
MaxTime == 4

\* CACHE_INTERVAL, in clock ticks of the model (one tick is 7500 ms)
CACHE_INTERVAL == 2

TournamentIds == {"A", "B"}
\* process.env.TOURNAMENT_ID
TOURNAMENT_ID == "A"
\* req.query.tId: an identifier, or none
QueryParams == TournamentIds \cup {Undefined}

\* matches.json payloads (data, with IncludedJane as included)
MatchesOne ==
    << [id |-> 1, state |-> "open", station |-> <<"8">>,
        player1 |-> <<"5">>, player2 |-> <<"6">>,
        suggestedPlayOrder |-> Num(1)],
       [id |-> 2, state |-> "pending", station |-> UndefinedKey,
        player1 |-> <<"5">>, player2 |-> UndefinedKey,
        suggestedPlayOrder |-> Num(2)] >>
MatchesTwo ==
    << [id |-> 2, state |-> "open", station |-> <<"7">>,
        player1 |-> <<"5">>, player2 |-> <<"6">>,
        suggestedPlayOrder |-> Num(2)],
       [id |-> 3, state |-> "pending", station |-> UndefinedKey,
        player1 |-> <<"6">>, player2 |-> UndefinedKey,
        suggestedPlayOrder |-> Num(3)] >>

MatchesData(res) == IF res = "matchesOne" THEN MatchesOne ELSE MatchesTwo

\* What an upstream read can end in: no response, a non-2xx status, a 2xx
\* response without the expected JSON shape, a well-formed payload.
Failures == {"network", "status"}
MatchesResponses == Failures \cup {"malformed", "matchesOne", "matchesTwo"}
StationsResponses == Failures \cup {"malformed", "stations"}

\* newData for each of the two matches payloads
SnapshotOne == UpdateResult(MatchesOne, IncludedJane, StationsTables)
SnapshotTwo == UpdateResult(MatchesTwo, IncludedJane, StationsTables)

Snapshot(matchesRes) ==
    IF matchesRes = "matchesOne" THEN SnapshotOne ELSE SnapshotTwo

IdleRequest ==
    [pc |-> "idle", q |-> Undefined, tId |-> Undefined, uId |-> Undefined,
     matchesRes |-> "none", stationsRes |-> "none",
     fetch |-> "none", ret |-> EmptySnapshot,
     seen |-> "none", storedAt |-> 0]

Init ==
    /\ matchesCache = EmptyObject
    /\ cacheTimestamps = EmptyObject
    /\ now = 1
    /\ req = [r \in 1..MaxRequests |-> IdleRequest]
    /\ rawMatches = <<>>
    /\ rawIncluded = IncludedJane
    /\ rawStations = StationsTables
    /\ newData = EmptySnapshot
    /\ phase = "unused"

\* bug: the route passes the query parameter on as it is
RouteTIdAsGiven(q) == q

\* line 513: req.query.tId || process.env.TOURNAMENT_ID
RouteTId(q) == IF Falsy(q) THEN TOURNAMENT_ID ELSE q

\* line 47: tournamentId || process.env.TOURNAMENT_ID
UpdateTId(tournamentId) ==
    IF Falsy(tournamentId) THEN TOURNAMENT_ID ELSE tournamentId

\* bug: an entry as old as the interval is refreshed already
NeedsUpdateAtInterval(cache, stamps, tId, t) ==
    \/ ~Has(cache, tId)
    \/ ~Has(stamps, tId)
    \/ t - stamps[tId] >= CACHE_INTERVAL

\* bug: the age is compared with 0, the entry is refreshed once the clock
\* has moved
NeedsUpdateAfterTick(cache, stamps, tId, t) ==
    \/ ~Has(cache, tId)
    \/ ~Has(stamps, tId)
    \/ t - stamps[tId] > 0

\* bug: an entry is fetched once and never again
NeedsUpdateUncachedOnly(cache, stamps, tId, t) ==
    \/ ~Has(cache, tId)
    \/ ~Has(stamps, tId)

\* lines 110-114; a timestamp is never 0, so !cacheTimestamps[tId] is its absence
NeedsUpdate(cache, stamps, tId, t) ==
    \/ ~Has(cache, tId)
    \/ ~Has(stamps, tId)
    \/ t - stamps[tId] > CACHE_INTERVAL

\* bug: matchesCache.tId is read, the property named "tId"
ResultOfNameTId(cache, tId) ==
    IF Has(cache, "tId") THEN cache["tId"] ELSE EmptySnapshot

\* line 117: matchesCache[tId] || { active: [], pending: [] }
Result(cache, tId) == IF Has(cache, tId) THEN cache[tId] ELSE EmptySnapshot

\* bug: the try block ends after the two reads, so an error thrown while the
\* payloads are processed is not caught
CaughtReadErrors(error) == error \in {"network", "status"}

\* lines 102-104: the catch clause takes every error thrown in the try block
Caught(error) == TRUE

\* bug: a failed refresh stores the empty snapshot
CacheEmptiedOnError(cache, tId) == Put(cache, tId, [active |-> <<>>, pending |-> <<>>])

\* bug: a failed refresh deletes the entry
CacheDeletedOnError(cache, tId) == [k \in DOMAIN cache \ {tId} |-> cache[k]]

\* lines 102-104: the catch clause leaves the cache as it is
CacheAfterError(cache, tId) == cache

\* bug: the timestamp is set whether or not the refresh succeeded
StampsSetOnError(stamps, tId, t) ==
    [k \in DOMAIN stamps \cup {tId} |-> IF k = tId THEN t ELSE stamps[k]]

\* lines 102-104: the catch clause leaves the timestamps as they are
StampsAfterError(stamps, tId, t) == stamps

\* bug: the new matches are pushed into the stored lists
StoreAppended(cache, tId, data) ==
    IF tId \in DOMAIN cache
    THEN [k \in DOMAIN cache |->
            IF k = tId
            THEN [active |-> cache[k].active \o data.active,
                  pending |-> cache[k].pending \o data.pending]
            ELSE cache[k]]
    ELSE [k \in DOMAIN cache \cup {tId} |-> IF k = tId THEN data ELSE cache[k]]

\* bug: the cache is replaced by an object that holds this entry alone
StoreSnapshotAlone(cache, tId, data) == [k \in {tId} |-> data]

\* line 100
StoreSnapshot(cache, tId, data) == Put(cache, tId, data)

\* bug: the timestamp is set with the first snapshot only
StoreTimestampOnce(stamps, tId, t) ==
    IF Has(stamps, tId) THEN stamps ELSE Put(stamps, tId, t)

\* line 101
StoreTimestamp(stamps, tId, t) == Put(stamps, tId, t)

\* the state of tId's entry at time t: the spec's Uncached, Stale, Fresh
EntryState(cache, stamps, tId, t) ==
    IF ~Has(cache, tId) \/ ~Has(stamps, tId) THEN "uncached"
    ELSE IF t - stamps[tId] > CACHE_INTERVAL THEN "stale"
    ELSE "fresh"

\* what updateMatches has of the stations read when it ends: the payload, or
\* nothing
StationsRead(res) == IF res \in {"stations"} THEN res ELSE "failed"

\* bug: a failed stations read is passed over and the snapshot is built from
\* the matches read alone
ReadErrorMatchesOnly(matchesRes, stationsRes) ==
    IF matchesRes = "malformed" THEN "TypeError" ELSE "none"

\* lines 52-98: the error thrown between the end of the stations read and the
\* store, "none" if there is none: the read's own failure, or the TypeError
\* of reading a payload that has not the expected shape
ReadError(matchesRes, stationsRes) ==
    IF stationsRes \in Failures THEN stationsRes
    ELSE IF stationsRes = "malformed" \/ matchesRes = "malformed" THEN "TypeError"
    ELSE "none"

\* GET /: lines 512-515, 108-115 and 46-51, up to the first await
Request(r, q) ==
    /\ req[r].pc = "idle"
    /\ IF r = 1 THEN TRUE ELSE req[r - 1].pc # "idle"
    /\ LET tId == RouteTId(q)
           called == [req[r] EXCEPT !.q = q, !.tId = tId,
                            !.seen = EntryState(matchesCache, cacheTimestamps,
                                                tId, now)]
       IN  IF NeedsUpdate(matchesCache, cacheTimestamps, tId, now)
           THEN req' = [req EXCEPT ![r] =
                    [called EXCEPT !.pc = "matches", !.uId = UpdateTId(tId)]]
           ELSE req' = [req EXCEPT ![r] =
                    [called EXCEPT !.pc = "done", !.fetch = "cached",
                                   !.ret = Result(matchesCache, tId)]]
    /\ UNCHANGED <<matchesCache, cacheTimestamps, now>>
    /\ UNCHANGED normVars

\* bug: a while in the place of the if of line 110: the refresh is run again
\* as long as the entry is missing or stale
AfterUpdateRetry(cache, stamps, tId, t) ==
    IF NeedsUpdate(cache, stamps, tId, t) THEN "matches" ELSE "done"

\* lines 110-117: where getMatchesData is once the awaited updateMatches has
\* ended without an error leaving it, whatever the run left in the cache:
\* at its return
AfterUpdate(cache, stamps, tId, t) == "done"

\* updateMatches ends in its catch clause, or the error leaves it; then
\* getMatchesData returns (line 117) or passes the error on
Fail(r, error) ==
    /\ matchesCache' = CacheAfterError(matchesCache, req[r].uId)
    /\ cacheTimestamps' = StampsAfterError(cacheTimestamps, req[r].uId, now)
    /\ req' = [req EXCEPT ![r] =
            IF Caught(error)
            THEN [@ EXCEPT !.pc = AfterUpdate(matchesCache', cacheTimestamps',
                                              req[r].tId, now),
                           !.fetch = "error",
                           !.ret = Result(matchesCache', req[r].tId)]
            ELSE [@ EXCEPT !.pc = "threw", !.fetch = "error"]]

\* the matches read ends: lines 49-54
MatchesResponse(r, res) ==
    /\ req[r].pc = "matches"
    /\ IF res \in Failures
       THEN Fail(r, res)
       ELSE /\ req' = [req EXCEPT ![r].pc = "stations", ![r].matchesRes = res]
            /\ UNCHANGED <<matchesCache, cacheTimestamps>>
    /\ UNCHANGED now
    /\ UNCHANGED normVars

\* the stations read ends: lines 52-105 and 115-117
StationsResponse(r, res) ==
    /\ req[r].pc = "stations"
    /\ LET error == ReadError(req[r].matchesRes, res)
       IN  IF error # "none"
           THEN /\ matchesCache' = CacheAfterError(matchesCache, req[r].uId)
                /\ cacheTimestamps' =
                        StampsAfterError(cacheTimestamps, req[r].uId, now)
                /\ req' = [req EXCEPT ![r] =
                        IF Caught(error)
                        THEN [@ EXCEPT !.pc = AfterUpdate(matchesCache',
                                                cacheTimestamps', req[r].tId, now),
                                       !.fetch = "error",
                                       !.stationsRes = StationsRead(res),
                                       !.ret = Result(matchesCache', req[r].tId)]
                        ELSE [@ EXCEPT !.pc = "threw", !.fetch = "error",
                                       !.stationsRes = StationsRead(res)]]
           ELSE /\ matchesCache' = StoreSnapshot(matchesCache, req[r].uId,
                                        Snapshot(req[r].matchesRes))
                /\ cacheTimestamps' =
                        StoreTimestamp(cacheTimestamps, req[r].uId, now)
                /\ req' = [req EXCEPT ![r] =
                        [@ EXCEPT !.pc = AfterUpdate(matchesCache',
                                                cacheTimestamps', req[r].tId, now),
                                  !.fetch = "ok",
                                  !.stationsRes = StationsRead(res), !.storedAt = now,
                                  !.ret = Result(matchesCache', req[r].tId)]]
    /\ UNCHANGED now
    /\ UNCHANGED normVars

\* Date.now() advances
Tick ==
    /\ now < MaxTime
    /\ now' = now + 1
    /\ UNCHANGED <<matchesCache, cacheTimestamps, req>>
    /\ UNCHANGED normVars

Next ==
    \/ \E r \in 1..MaxRequests, q \in QueryParams : Request(r, q)
    \/ \E r \in 1..MaxRequests, res \in MatchesResponses : MatchesResponse(r, res)
    \/ \E r \in 1..MaxRequests, res \in StationsResponses : StationsResponse(r, res)
    \/ Tick

Spec == Init /\ [][Next]_vars

-----------------------------------------------------------------------------
(* Claims about the cache, checked under Spec *)

Requests == 1..MaxRequests

\* request r has run updateMatches (to its end or not) in rq
Updated(rq, r) ==
    rq[r].pc \in {"matches", "stations"} \/ rq[r].fetch \in {"ok", "error"}

\* the updateMatches runs for tournament k in rq
Updates(rq, k) == Cardinality({r \in Requests : Updated(rq, r) /\ rq[r].uId = k})

\* the requests that were made for tournament k
Callers(k) ==
    {r \in Requests : req[r].pc # "idle" /\ (req[r].tId = k \/ req[r].uId = k)}

\* request r is called in this step
Called(r) == req[r].pc = "idle" /\ req'[r].pc # "idle"

\* the refresh of request r ends in an error in this step
Failed(r) == req[r].pc \in {"matches", "stations"} /\ req'[r].fetch = "error"

\* request r returns or throws in this step
Ended(r) == req[r].pc \in {"idle", "matches", "stations"}
            /\ req'[r].pc \in {"done", "threw"}

\* C1: tournament k was uncached, one query for it has returned after a
\* successful refresh, and now a second query is made.  If the entry is no
\* older than the interval (as it is when the two calls are within the
\* interval of each other) the second query returns without a refresh and one
\* refresh was run in all; if it is older, a second refresh is issued.
C1_SecondCall ==
    \A k \in TournamentIds : \A r1, r2 \in Requests :
        (/\ Callers(k) = {r1}
         /\ req[r1].pc = "done"
         /\ req[r1].fetch = "ok"
         /\ Called(r2)
         /\ req'[r2].tId = k)
        => /\ now - req[r1].storedAt <= CACHE_INTERVAL
                => req'[r2].pc = "done" /\ Updates(req', k) = 1
           /\ now - req[r1].storedAt > CACHE_INTERVAL
                => req'[r2].pc = "matches" /\ Updates(req', k) = 2

\* C1: every step in which the second query is called decides between one
\* refresh in all and a second refresh by the entry's age
C1_TwoCallsOneFetch == [][C1_SecondCall]_vars

\* two queries for B have returned, the second one without a refresh
C1_Witness ==
    /\ req[1].pc = "done" /\ req[1].tId = "B" /\ req[1].fetch = "ok"
    /\ req[2].pc = "done" /\ req[2].tId = "B" /\ req[2].fetch = "cached"
    /\ now > req[1].storedAt
    /\ Updates(req, "B") = 1

\* C2: when the refresh of a query that found its entry stale fails, the
\* query returns the stored snapshot, no error leaves it, the stored snapshot
\* and its timestamp are as before, and an entry that was stale is stale
\* still, so that the next query refreshes again.
C2_FailedRefresh ==
    \A r \in Requests :
        (Failed(r) /\ req[r].seen = "stale")
        => LET k == req[r].tId
           IN  /\ req'[r].pc = "done"
               /\ Has(matchesCache, k)
               /\ req'[r].ret = matchesCache[k]
               /\ matchesCache' = matchesCache
               /\ cacheTimestamps' = cacheTimestamps
               /\ EntryState(matchesCache, cacheTimestamps, k, now) = "stale"
                    => /\ EntryState(matchesCache', cacheTimestamps', k, now')
                            = "stale"
                       /\ NeedsUpdate(matchesCache', cacheTimestamps', k, now')

\* C2: every step in which the refresh of a query on a stale entry fails
\* returns the stored snapshot and changes neither it nor its timestamp
C2_StaleOnError == [][C2_FailedRefresh]_vars

\* a query that found a stale entry has returned it after a failed refresh
C2_Witness ==
    \E r \in Requests :
        /\ req[r].pc = "done"
        /\ req[r].seen = "stale"
        /\ req[r].fetch = "error"
        /\ Has(matchesCache, req[r].tId)
        /\ req[r].ret = matchesCache[req[r].tId]
        /\ req[r].ret # EmptySnapshot
        /\ EntryState(matchesCache, cacheTimestamps, req[r].tId, now) = "stale"

\* C3: when the refresh of a query for a tournament without an entry fails,
\* the query returns the empty snapshot and no entry is created; and every
\* query for a tournament without an entry issues a fetch.
C3_FailedFirstRefresh ==
    \A r \in Requests :
        /\ (Failed(r) /\ ~Has(matchesCache, req[r].tId))
            => /\ req'[r].pc = "done"
               /\ req'[r].ret = EmptySnapshot
               /\ ~Has(matchesCache', req[r].tId)
               /\ ~Has(cacheTimestamps', req[r].tId)
        /\ (Called(r) /\ ~Has(matchesCache, req'[r].tId))
            => req'[r].pc = "matches"

\* C3: every step in which the refresh of a query on a missing entry fails
\* returns the empty snapshot and creates no entry, and every call on a
\* missing entry fetches
C3_UncachedOnError == [][C3_FailedFirstRefresh]_vars

\* the first query for B got the empty snapshot after a failed refresh, B
\* has no entry and the second query for B is fetching
C3_Witness ==
    /\ req[1].pc = "done" /\ req[1].tId = "B" /\ req[1].fetch = "error"
    /\ req[1].seen = "uncached"
    /\ req[1].ret = EmptySnapshot
    /\ ~Has(matchesCache, "B")
    /\ req[2].pc = "matches" /\ req[2].tId = "B"

IsList(l) == DOMAIN l = 1..Len(l)

\* C4: no error leaves the query, whatever the upstream reads end in; a
\* query that has ended has returned an active list and a pending list.
C4_NeverRaises ==
    \A r \in Requests :
        /\ req[r].pc # "threw"
        /\ req[r].pc = "done"
            => /\ DOMAIN req[r].ret = {"active", "pending"}
               /\ IsList(req[r].ret.active)
               /\ IsList(req[r].ret.pending)

\* one query has returned after a malformed matches payload, another after
\* a successful refresh
C4_Witness ==
    /\ req[1].pc = "done" /\ req[1].fetch = "error"
    /\ req[1].matchesRes = "malformed"
    /\ req[2].pc = "done" /\ req[2].fetch = "ok"

\* C5: a key has a snapshot exactly when it has a timestamp; a key that has a
\* snapshot keeps having one, and its snapshot changes only in a step in
\* which a refresh for it succeeds.
C5_Step ==
    \A k \in DOMAIN matchesCache :
        /\ Has(matchesCache', k)
        /\ matchesCache'[k] # matchesCache[k]
            => \E r \in Requests :
                /\ req[r].pc = "stations"
                /\ req[r].uId = k
                /\ req'[r].fetch = "ok"

\* C5: snapshots and timestamps have the same keys in every state, and no step
\* removes a snapshot or changes it other than by a successful refresh
C5_FailuresKeepData ==
    /\ [](DOMAIN matchesCache = DOMAIN cacheTimestamps)
    /\ [][C5_Step]_vars

\* a query that was made before the entry existed has failed after another
\* query stored it, and got the stored snapshot
C5_Witness ==
    \E r1, r2 \in Requests :
        /\ req[r1].pc = "done" /\ req[r1].fetch = "ok"
        /\ req[r2].pc = "done" /\ req[r2].fetch = "error"
        /\ req[r2].seen = "uncached"
        /\ req[r2].tId = req[r1].tId
        /\ Has(matchesCache, req[r2].tId)
        /\ req[r2].ret = matchesCache[req[r2].tId]

\* what the refresh of request r computed from its two reads
Refreshed(r) == Snapshot(req[r].matchesRes)

\* C6: every stored snapshot is the whole result of one refresh for its key,
\* stored with that refresh's timestamp; every returned snapshot is the empty
\* one or the whole result of one refresh.
C6_WholeSnapshots ==
    /\ \A k \in DOMAIN matchesCache :
        \E r \in Requests :
            /\ req[r].fetch = "ok"
            /\ req[r].uId = k
            /\ matchesCache[k] = Refreshed(r)
            /\ cacheTimestamps[k] = req[r].storedAt
    /\ \A r \in Requests :
        req[r].pc = "done" =>
            \/ req[r].ret = EmptySnapshot
            \/ \E x \in Requests :
                /\ req[x].fetch = "ok"
                /\ req[x].uId = req[r].tId
                /\ req[r].ret = Refreshed(x)

\* two refreshes of A with different payloads have stored one after the
\* other; the first query holds the first result, the cache the second
C6_Witness ==
    /\ req[1].pc = "done" /\ req[1].fetch = "ok" /\ req[1].uId = "A"
    /\ req[2].pc = "done" /\ req[2].fetch = "ok" /\ req[2].uId = "A"
    /\ req[1].matchesRes = "matchesOne"
    /\ req[2].matchesRes = "matchesTwo"
    /\ req[1].ret = Snapshot("matchesOne")
    /\ matchesCache["A"] = Snapshot("matchesTwo")
    /\ req[2].storedAt > req[1].storedAt

\* C7: a request without a tournament identifier is served as one for the
\* default tournament: it returns without a fetch exactly when the default
\* tournament's entry is fresh, fetches for the default tournament otherwise,
\* and returns the default tournament's stored snapshot.
C7_NoIdentifier ==
    \A r \in Requests :
        /\ (Called(r) /\ Falsy(req'[r].q))
            => IF EntryState(matchesCache, cacheTimestamps, TOURNAMENT_ID, now)
                    = "fresh"
               THEN req'[r].pc = "done" /\ req'[r].fetch = "cached"
               ELSE req'[r].pc = "matches" /\ req'[r].uId = TOURNAMENT_ID
        /\ (Ended(r) /\ Falsy(req'[r].q))
            => /\ req'[r].pc = "done"
               /\ req'[r].ret = Result(matchesCache', TOURNAMENT_ID)

\* C7: every step of a request without identifier is that of a request for the
\* default tournament
C7_DefaultTournament == [][C7_NoIdentifier]_vars

\* two requests without identifier: the first refreshed the default
\* tournament, the second got its snapshot without a fetch
C7_Witness ==
    /\ req[1].pc = "done" /\ Falsy(req[1].q) /\ req[1].fetch = "ok"
    /\ req[2].pc = "done" /\ Falsy(req[2].q) /\ req[2].fetch = "cached"
    /\ Has(matchesCache, TOURNAMENT_ID)
    /\ req[2].ret = matchesCache[TOURNAMENT_ID]
    /\ req[2].ret # EmptySnapshot

-----------------------------------------------------------------------------
(* Claims about the normaliser, checked under SpecNorm *)

Occurrences(list, id) == Cardinality({j \in 1..Len(list) : list[j].id = id})

\* C8: every match record of a successful response is in active exactly once
\* and not in pending when its state is open, in pending exactly once and not
\* in active when its state is pending, and in neither list with any other or
\* a missing state.
C8_Classification ==
    phase = "sorted" =>
        \A i \in 1..Len(rawMatches) :
            LET m == rawMatches[i]
                inActive == Occurrences(newData.active, m.id)
                inPending == Occurrences(newData.pending, m.id)
            IN  /\ m.state = "open" => inActive = 1 /\ inPending = 0
                /\ m.state = "pending" => inActive = 0 /\ inPending = 1
                /\ m.state \notin {"open", "pending"} =>
                        inActive = 0 /\ inPending = 0

\* a processed response with an open, a pending and a dropped match
C8_Witness ==
    /\ phase = "sorted"
    /\ Len(rawMatches) = 3
    /\ rawMatches[1].state = Undefined
    /\ rawMatches[2].state = "pending"
    /\ rawMatches[3].state = "open"
    /\ Len(newData.active) = 1
    /\ Len(newData.pending) = 1

HasDigit(name) == \E i \in 1..Len(name) : name[i] \in Digits

RECURSIVE DecimalValue(_, _, _)
DecimalValue(name, lo, hi) ==
    IF hi < lo THEN 0
    ELSE DecimalValue(name, lo, hi - 1) * 10 + DigitVal[name[hi]]

\* the number written by the first maximal run of digits of name
FirstRunValue(name) ==
    LET lo == CHOOSE i \in 1..Len(name) :
                /\ name[i] \in Digits
                /\ \A k \in 1..(i - 1) : name[k] \notin Digits
        hi == CHOOSE j \in lo..Len(name) :
                /\ \A k \in lo..j : name[k] \in Digits
                /\ j = Len(name) \/ name[j + 1] \notin Digits
    IN  DecimalValue(name, lo, hi)

\* C9: the active list of a produced snapshot is in ascending order of the
\* number written by the first run of digits of the station name, and every
\* match whose station name has no digit comes after all those that have.
C9_ActiveSorted ==
    phase = "sorted" =>
        \A i, j \in 1..Len(newData.active) :
            i < j =>
                LET x == newData.active[i].station
                    y == newData.active[j].station
                IN  /\ HasDigit(x) /\ HasDigit(y) =>
                            FirstRunValue(x) <= FirstRunValue(y)
                    /\ ~HasDigit(x) => ~HasDigit(y)

\* the response lists Tisch ?, Table 10, Table 2; active is Table 2,
\* Table 10, Tisch ?
C9_Witness ==
    /\ phase = "sorted"
    /\ rawStations = StationsTables
    /\ Len(rawMatches) = 3
    /\ rawMatches[1].state = "open" /\ rawMatches[1].station = UndefinedKey
    /\ rawMatches[2].state = "open" /\ rawMatches[2].station = <<"8">>
    /\ rawMatches[3].state = "open" /\ rawMatches[3].station = <<"7">>
    /\ newData.active[1].id = 3
    /\ newData.active[2].id = 2
    /\ newData.active[3].station = TischUnknown

\* C10: the pending list of a produced snapshot is in ascending order of
\* suggestedPlayOrder.  Stated on the entries that carry a number: of two
\* such entries the earlier one's is less than or equal to the later one's,
\* which the claim's adjacent-pair order implies.
C10_PendingSorted ==
    phase = "sorted" =>
        \A i, j \in 1..Len(newData.pending) :
            LET x == newData.pending[i].suggestedPlayOrder
                y == newData.pending[j].suggestedPlayOrder
            IN  (i < j /\ x.k = "number" /\ y.k = "number") => x.n <= y.n

-----------------------------------------------------------------------------
(* Claims about the two reads of a refresh, checked under Spec *)

MatchesPayloads == {"matchesOne", "matchesTwo"}

\* the updateMatches run of request r ends in this step
UpdateEnded(r) ==
    /\ req[r].pc \in {"matches", "stations"}
    /\ req'[r].pc \notin {"matches", "stations"}

\* both reads of request r were answered with a payload
BothRead(rq, r) ==
    rq[r].matchesRes \in MatchesPayloads /\ rq[r].stationsRes = "stations"

C11_Step ==
    /\ \A r \in Requests :
        (UpdateEnded(r) /\ ~BothRead(req', r))
            => /\ req'[r].fetch = "error"
               /\ matchesCache' = matchesCache
               /\ cacheTimestamps' = cacheTimestamps
    /\ (matchesCache' # matchesCache \/ cacheTimestamps' # cacheTimestamps)
            => \E r \in Requests :
                /\ req[r].pc = "stations"
                /\ req'[r].fetch = "ok"
                /\ BothRead(req', r)
                /\ matchesCache' =
                        Put(matchesCache, req[r].uId,
                            UpdateResult(MatchesData(req'[r].matchesRes),
                                         IncludedJane, StationsTables))

\* C11: a refresh one of whose two reads fails ends in an error and writes
\* nothing; every write to the cache is made by a refresh both of whose reads
\* were answered, and stores what these two payloads give, whatever was stored
\* before.
C11_BothReadsOrNothing == [][C11_Step]_vars

\* the entry of a tournament was stale, the refresh read the matches and
\* failed at the stations: the entry is the old snapshot, nothing of the new
\* matches payload is in it
C11_Witness ==
    \E r \in Requests :
        /\ req[r].pc = "done" /\ req[r].fetch = "error"
        /\ req[r].seen = "stale"
        /\ req[r].matchesRes = "matchesTwo"
        /\ req[r].stationsRes = "failed"
        /\ matchesCache[req[r].uId] = Snapshot("matchesOne")
        /\ req[r].ret = Snapshot("matchesOne")

-----------------------------------------------------------------------------
(* The names: the payloads the two lookups are built from and read with,    *)
(* lines 56-83                                                              *)

MaxNamed == 2

NameJane == <<"J", "a", "n", "e">>
NameJo == <<"J", "o">>
NameAl == <<"A", "l">>
NameBo == <<"B", "o">>

\* attributes.name of participant 5: with the marker, without it, the marker
\* alone, the marker twice, none
NamesFive ==
    {NameJane \o InvitationPending, NameJo, InvitationPending,
     NameAl \o InvitationPending \o InvitationPending, NoString}
\* attributes.name of participant 6
NamesSix == {NoString, NameBo}

\* included: participants 5 and 6 and an entity of another type, 9
Included(five, six) ==
    << [type |-> "participant", id |-> <<"5">>, name |-> five],
       [type |-> "participant", id |-> <<"6">>, name |-> six],
       [type |-> "tournament", id |-> <<"9">>, name |-> <<"X">>] >>

IncludedPayloads == {Included(five, six) : five \in NamesFive, six \in NamesSix}

\* The match records with identifier n: the station is one of the list, one
\* the list has not, or none; player1 is a participant, the identifier of an
\* entity that is no participant, or none.
NamedMatches(n) ==
    [id : {n}, state : {"open", "pending"},
     station : {<<"7">>, <<"9">>, UndefinedKey},
     player1 : {<<"5">>, <<"9">>, UndefinedKey}, player2 : {<<"6">>},
     suggestedPlayOrder : {Num(1)}]

NamesInit ==
    /\ matchesCache = EmptyObject
    /\ cacheTimestamps = EmptyObject
    /\ now = 1
    /\ req = <<>>
    /\ rawMatches = <<>>
    /\ rawIncluded \in IncludedPayloads
    /\ rawStations \in StationPayloads
    /\ newData = EmptySnapshot
    /\ phase = "input"

\* the upstream holds one more match record
AddNamedMatch ==
    /\ phase = "input"
    /\ Len(rawMatches) < MaxNamed
    /\ \E m \in NamedMatches(Len(rawMatches) + 1) :
            rawMatches' = Append(rawMatches, m)
    /\ UNCHANGED <<rawIncluded, rawStations, newData, phase>>
    /\ UNCHANGED cacheVars

NamesNext == AddNamedMatch \/ Normalize

SpecNames == NamesInit /\ [][NamesNext]_vars

-----------------------------------------------------------------------------
(* Claims about the names, checked under SpecNames *)

\* the entries of list that were made from the match record m
Entries(list, m) == {i \in 1..Len(list) : list[i].id = m.id}

\* the match record m is stored once, in the list of its state, as entry e
StoredAs(m, e) ==
    LET list == IF m.state = "open" THEN newData.active ELSE newData.pending
        other == IF m.state = "open" THEN newData.pending ELSE newData.active
    IN  /\ Cardinality(Entries(list, m)) = 1
        /\ Entries(other, m) = {}
        /\ \E i \in Entries(list, m) : list[i] = e

\* the entry made from the match record m
Entry(m) ==
    LET list == IF m.state = "open" THEN newData.active ELSE newData.pending
    IN  list[CHOOSE i \in 1..Len(list) : list[i].id = m.id]

IsParticipant(id) ==
    \E j \in 1..Len(rawIncluded) :
        rawIncluded[j].type = "participant" /\ rawIncluded[j].id = id

IsStation(id) == \E j \in 1..Len(rawStations) : rawStations[j].id = id

\* what is shown for a station reference that resolves to nothing
UnresolvedAs(unknown) ==
    phase = "sorted" =>
        \A k \in 1..Len(rawMatches) :
            LET m == rawMatches[k]
            IN  /\ StoredAs(m, Entry(m))
                /\ ~IsParticipant(m.player1) => Entry(m).player1 = <<"?">>
                /\ ~IsStation(m.station) => Entry(m).station = unknown
                /\ Entry(m).state = m.state

\* C12: every match is stored once in the list of its state; a player
\* reference that is no participant's identifier is shown as "?", a station
\* reference that is no station's identifier, or is missing, as "Table ?".
C12_UnresolvedTable == UnresolvedAs(<<"T", "a", "b", "l", "e", " ", "?">>)

\* C12, amended: as before, with "Tisch ?" for the station
C12_UnresolvedTisch == UnresolvedAs(<<"T", "i", "s", "c", "h", " ", "?">>)

\* an open match whose station is not in the stations list and whose player1
\* is the identifier of an entity that is no participant is in active with
\* "Tisch ?" and "?"; a pending match without station is in pending
C12_Witness ==
    /\ phase = "sorted"
    /\ Len(rawMatches) = 2
    /\ rawMatches[1].state = "open"
    /\ rawMatches[1].station = <<"9">> /\ rawMatches[1].player1 = <<"9">>
    /\ rawMatches[2].state = "pending"
    /\ rawMatches[2].station = UndefinedKey
    /\ rawMatches[2].player1 = UndefinedKey
    /\ Len(newData.active) = 1 /\ Len(newData.pending) = 1
    /\ newData.active[1].station = TischUnknown
    /\ newData.active[1].player1 = <<"?">>
    /\ newData.pending[1].station = TischUnknown
    /\ newData.pending[1].player1 = <<"?">>

\* the names under which the reference id is shown in the stored entries
Shown(id) ==
    {Entry(rawMatches[k]).player1 :
        k \in {i \in 1..Len(rawMatches) : rawMatches[i].player1 = id}}
    \cup
    {Entry(rawMatches[k]).player2 :
        k \in {i \in 1..Len(rawMatches) : rawMatches[i].player2 = id}}

\* the display name of a participant as the claim has it: no marker is left
\* in it, and one without a name is "Player <id>"
ClaimedName(item) ==
    CASE item.name = NameJane \o InvitationPending -> NameJane
      [] item.name = NameJo -> NameJo
      [] item.name = NameBo -> NameBo
      [] item.name = InvitationPending -> NoString
      [] item.name = NameAl \o InvitationPending \o InvitationPending -> NameAl
      [] item.name = NoString ->
            <<"P", "l", "a", "y", "e", "r", " ">> \o item.id

\* the display name of a participant, amended: the first marker is taken out,
\* and one without a name, or with nothing but the marker, is "Spieler <id>"
AmendedName(item) ==
    CASE item.name = NameJane \o InvitationPending -> NameJane
      [] item.name = NameJo -> NameJo
      [] item.name = NameBo -> NameBo
      [] item.name = InvitationPending ->
            <<"S", "p", "i", "e", "l", "e", "r", " ">> \o item.id
      [] item.name = NameAl \o InvitationPending \o InvitationPending ->
            NameAl \o InvitationPending
      [] item.name = NoString ->
            <<"S", "p", "i", "e", "l", "e", "r", " ">> \o item.id

\* C13: a reference to an included participant is shown as the participant's
\* name without the marker " (invitation pending)", as "Player <id>" when the
\* participant has no name; a reference to an included entity of another type
\* is shown as "?", the entity is not in the lookup.
C13_PlayerNames ==
    phase = "sorted" =>
        \A j \in 1..Len(rawIncluded) :
            Shown(rawIncluded[j].id) \subseteq
                {IF rawIncluded[j].type = "participant"
                 THEN ClaimedName(rawIncluded[j]) ELSE <<"?">>}

\* C13, amended: a reference to an included participant is shown as the
\* participant's name with the first " (invitation pending)" taken out, as
\* "Spieler <id>" when the participant has no name or nothing but the marker
\* as name; a reference to an included entity of another type is shown as "?".
C13_SpielerNames ==
    phase = "sorted" =>
        \A j \in 1..Len(rawIncluded) :
            Shown(rawIncluded[j].id) \subseteq
                {IF rawIncluded[j].type = "participant"
                 THEN AmendedName(rawIncluded[j]) ELSE <<"?">>}

\* "Jane (invitation pending)" is shown as "Jane", participant 6, who has no
\* name, as "Spieler 6", and the tournament entity 9 as "?"
C13_Witness ==
    /\ phase = "sorted"
    /\ rawIncluded = Included(NameJane \o InvitationPending, NoString)
    /\ Len(rawMatches) = 2
    /\ rawMatches[1].player1 = <<"5">> /\ rawMatches[1].player2 = <<"6">>
    /\ rawMatches[2].player1 = <<"9">>
    /\ Entry(rawMatches[1]).player1 = <<"J", "a", "n", "e">>
    /\ Entry(rawMatches[1]).player2 = <<"S", "p", "i", "e", "l", "e", "r", " ", "6">>
    /\ Entry(rawMatches[2]).player1 = <<"?">>

-----------------------------------------------------------------------------
(* Claims about freshness and concurrent queries, checked under Spec *)

\* tournament k has an entry at most CACHE_INTERVAL old
Fresh(k) ==
    /\ k \in DOMAIN matchesCache
    /\ k \in DOMAIN cacheTimestamps
    /\ now - cacheTimestamps[k] <= CACHE_INTERVAL

C14_Call ==
    \A r \in Requests :
        Called(r) =>
            LET k == req'[r].tId
            IN  /\ req'[r].pc = "matches"
                    <=> \/ k \notin DOMAIN matchesCache
                        \/ now - cacheTimestamps[k] > CACHE_INTERVAL
                /\ Fresh(k)
                    => /\ req'[r].pc = "done"
                       /\ req'[r].fetch = "cached"
                       /\ req'[r].ret = matchesCache[k]
                       /\ matchesCache' = matchesCache
                       /\ cacheTimestamps' = cacheTimestamps

\* C14: a query starts a refresh exactly when its tournament has no entry or
\* the entry is older than the interval; a query that finds an entry at most
\* as old as the interval starts no read, returns the stored snapshot and
\* leaves the cache and the timestamps as they are.
C14_FreshIsServed == [][C14_Call]_vars

\* the second query was served from the cache, and the entry it was served
\* from is exactly as old as the interval
C14_Witness ==
    /\ req[1].pc = "done" /\ req[1].fetch = "ok"
    /\ req[2].pc = "done" /\ req[2].fetch = "cached"
    /\ req[2].tId = req[1].tId
    /\ req[2].ret = matchesCache[req[2].tId]
    /\ now - cacheTimestamps[req[2].tId] = CACHE_INTERVAL

C15_Completion ==
    \A r \in Requests :
        (req[r].pc = "stations" /\ req'[r].fetch = "ok")
            => LET k == req[r].tId
                   fetched == UpdateResult(MatchesData(req[r].matchesRes),
                                           IncludedJane, StationsTables)
               IN  /\ req[r].seen \in {"uncached", "stale"}
                   /\ matchesCache'[k] = fetched
                   /\ cacheTimestamps'[k] = now'
                   /\ req'[r].pc = "done"
                   /\ req'[r].ret = fetched
                   /\ now' - cacheTimestamps'[k] <= CACHE_INTERVAL
                   /\ EntryState(matchesCache', cacheTimestamps', k, now')
                        = "fresh"

\* C15: the step in which the refresh of a query succeeds stores the fetched
\* snapshot under the query's tournament with the time of this step as its
\* timestamp, returns the fetched snapshot to the query, and leaves the entry
\* fresh.
C15_RefreshCompletes == [][C15_Completion]_vars

\* the second query found A uncached, so it was made at time 1, before the
\* first refresh stored at time 1; its own refresh ended at time 3: it has
\* replaced the first snapshot, the timestamp is 3, and it got its snapshot
C15_Witness ==
    /\ req[1].pc = "done" /\ req[1].fetch = "ok" /\ req[1].tId = "A"
    /\ req[1].matchesRes = "matchesOne" /\ req[1].storedAt = 1
    /\ req[2].pc = "done" /\ req[2].fetch = "ok" /\ req[2].tId = "A"
    /\ req[2].seen = "uncached"
    /\ req[2].matchesRes = "matchesTwo"
    /\ req[2].ret = Snapshot("matchesTwo")
    /\ matchesCache["A"] = Snapshot("matchesTwo")
    /\ cacheTimestamps["A"] = 3
    /\ now = 3

\* the requests whose refresh of tournament k is under way in rq
InFlight(rq, k) ==
    {x \in Requests : rq[x].pc \in {"matches", "stations"} /\ rq[x].uId = k}

C16_Call ==
    \A r \in Requests :
        (Called(r) /\ ~Fresh(req'[r].tId))
            => LET k == req'[r].tId
               IN  /\ req'[r].pc = "matches"
                   /\ InFlight(req', k) = InFlight(req, k) \cup {r}
                   /\ r \notin InFlight(req, k)

\* C16: a query for a tournament whose entry is missing or stale starts its
\* own refresh however many refreshes of that tournament are under way, and
\* these stay under way: every such query adds one to the fetches in flight.
C16_NoDeduplication == [][C16_Call]_vars

\* two queries for B, both made while B was uncached, both fetching
C16_Witness ==
    /\ req[1].seen = "uncached" /\ req[2].seen = "uncached"
    /\ req[1].tId = "B" /\ req[2].tId = "B"
    /\ InFlight(req, "B") = {1, 2}
    /\ "B" \notin DOMAIN matchesCache

\* the entry of tournament k is the same before and after the step
EntryKept(k) ==
    /\ k \in DOMAIN matchesCache' <=> k \in DOMAIN matchesCache
    /\ k \in DOMAIN cacheTimestamps' <=> k \in DOMAIN cacheTimestamps
    /\ k \in DOMAIN matchesCache => matchesCache'[k] = matchesCache[k]
    /\ k \in DOMAIN cacheTimestamps => cacheTimestamps'[k] = cacheTimestamps[k]

C19_Step ==
    \A r \in Requests :
        req'[r] # req[r] =>
            LET k == req'[r].tId
            IN  \A other \in TournamentIds \ {k} :
                    /\ EntryKept(other)
                    /\ (Called(r) /\ Fresh(other) /\ ~Fresh(k))
                        => req'[r].pc = "matches" /\ req'[r].uId = k
                    /\ (Called(r) /\ ~Fresh(other) /\ Fresh(k))
                        => req'[r].pc = "done" /\ req'[r].fetch = "cached"

\* C19: every step of a query for one tournament, its call, the end of a
\* read, the store or the failure of its refresh, leaves the entry and the
\* timestamp of every other tournament as they are; a query whose tournament
\* is not fresh fetches though another tournament is fresh, and one whose
\* tournament is fresh does not fetch though another is not.
C19_Independent == [][C19_Step]_vars

\* B was stored at time 1 and A at time 4: B's entry is still the snapshot
\* and the timestamp of its own refresh, stale now, next to A's fresh one
C19_Witness ==
    /\ req[1].pc = "done" /\ req[1].fetch = "ok" /\ req[1].tId = "B"
    /\ req[1].matchesRes = "matchesOne" /\ req[1].storedAt = 1
    /\ req[2].pc = "done" /\ req[2].fetch = "ok" /\ req[2].tId = "A"
    /\ req[2].matchesRes = "matchesTwo" /\ req[2].storedAt = 4
    /\ matchesCache["B"] = Snapshot("matchesOne")
    /\ cacheTimestamps["B"] = 1
    /\ matchesCache["A"] = Snapshot("matchesTwo")
    /\ cacheTimestamps["A"] = 4
    /\ Fresh("A") /\ ~Fresh("B")

-----------------------------------------------------------------------------
(* A server that has answered a query before: the requests of the model are *)
(* made after an earlier query for the default tournament, not one of the   *)
(* modelled requests, whose refresh stored its snapshot at time 1           *)

InitWarm ==
    /\ matchesCache = StoreSnapshot(EmptyObject, TOURNAMENT_ID,
                                    Snapshot("matchesOne"))
    /\ cacheTimestamps = StoreTimestamp(EmptyObject, TOURNAMENT_ID, 1)
    /\ now = 1
    /\ req = [r \in 1..MaxRequests |-> IdleRequest]
    /\ rawMatches = <<>>
    /\ rawIncluded = IncludedJane
    /\ rawStations = StationsTables
    /\ newData = EmptySnapshot
    /\ phase = "unused"

SpecWarm == InitWarm /\ [][Next]_vars

\* a refresh is under way in rq
Fetching(rq) == {x \in Requests : rq[x].pc \in {"matches", "stations"}}

C17_Call ==
    \A r \in Requests :
        (Called(r) /\ Fresh(req'[r].tId) /\ Fetching(req) # {})
            => /\ req'[r].pc = "done"
               /\ req'[r].fetch = "cached"
               /\ req'[r].ret = matchesCache[req'[r].tId]
               /\ Fetching(req') = Fetching(req)
               /\ \A x \in Fetching(req) : req'[x] = req[x]

\* C17: a query for a tournament with a fresh entry that is made while
\* refreshes are under way returns the stored snapshot in the step in which
\* it is made; the refreshes under way are still under way after it.
C17_FreshNotBlocked == [][C17_Call]_vars

\* the refresh of the first query, for B, has not been answered; the second
\* query, for A, made later, has returned A's stored snapshot
C17_Witness ==
    /\ req[1].pc = "matches" /\ req[1].uId = "B"
    /\ req[2].pc = "done" /\ req[2].tId = "A"
    /\ req[2].seen = "fresh" /\ req[2].fetch = "cached"
    /\ req[2].ret = Snapshot("matchesOne")
    /\ now = 1 + CACHE_INTERVAL

-----------------------------------------------------------------------------
(* An upstream whose tournament moves on: the matches are those of          *)
(* MatchesOne until they are those of MatchesTwo, and never those of        *)
(* MatchesOne again.  A read answered with MatchesOne was answered before   *)
(* every read answered with MatchesTwo.                                     *)

\* the matches read ends, lines 49-51, the upstream answering in this order
MatchesResponseInOrder(r, res) ==
    /\ res = "matchesOne"
            => \A x \in 1..MaxRequests : req[x].matchesRes # "matchesTwo"
    /\ MatchesResponse(r, res)

NextOrder ==
    \/ \E r \in 1..MaxRequests, q \in QueryParams : Request(r, q)
    \/ \E r \in 1..MaxRequests, res \in MatchesResponses :
            MatchesResponseInOrder(r, res)
    \/ \E r \in 1..MaxRequests, res \in StationsResponses : StationsResponse(r, res)
    \/ Tick

SpecOrder == Init /\ [][NextOrder]_vars

\* some refresh of tournament k that has stored read the later matches in rq
ReadLater(rq, k) ==
    \E x \in Requests :
        rq[x].fetch = "ok" /\ rq[x].uId = k /\ rq[x].matchesRes = "matchesTwo"

\* C18: a refresh that read the earlier matches does not replace a stored
\* snapshot that was built from the later matches; and once no refresh is
\* under way, the stored snapshot of a tournament of which some refresh has
\* read the later matches is the one built from the later matches.
C18_Store ==
    \A r \in Requests :
        (req[r].pc = "stations" /\ req'[r].fetch = "ok")
            => LET k == req[r].uId
               IN  /\ (/\ req[r].matchesRes = "matchesOne"
                       /\ k \in DOMAIN matchesCache
                       /\ matchesCache[k] = Snapshot("matchesTwo"))
                        => matchesCache'[k] = matchesCache[k]
                   /\ (Fetching(req') = {} /\ ReadLater(req', k))
                        => matchesCache'[k] = Snapshot("matchesTwo")

\* C18: no step in which a refresh stores puts a snapshot built from the
\* earlier matches in the place of one built from the later matches, or
\* leaves the cache, with no refresh under way, without the later matches
\* that a refresh has read
C18_NeverRegresses == [][C18_Store]_vars

-----------------------------------------------------------------------------
(* Every read ends: the upstream answers, or the read fails.  The           *)
(* continuation of an awaited read runs once the read has ended.            *)

SpecFair ==
    /\ Spec
    /\ \A r \in 1..MaxRequests :
        /\ WF_vars(\E res \in MatchesResponses : MatchesResponse(r, res))
        /\ WF_vars(\E res \in StationsResponses : StationsResponse(r, res))

\* a query goes from its call to the matches read or to its return, from the
\* matches read to the stations read or to its end, from the stations read to
\* its end, and does nothing once it has ended
C20_Forward ==
    \A r \in Requests :
        req'[r] # req[r] =>
            CASE req[r].pc = "idle" -> req'[r].pc \in {"matches", "done"}
              [] req[r].pc = "matches" -> req'[r].pc \in {"stations", "done", "threw"}
              [] req[r].pc = "stations" -> req'[r].pc \in {"done", "threw"}
              [] OTHER -> FALSE

\* C20: when every read ends, every query that was made returns; and a query
\* waits for at most one matches read and then at most one stations read,
\* whatever the other queries do.
C20_Returns ==
    /\ \A r \in Requests : (req[r].pc # "idle") ~> (req[r].pc = "done")
    /\ [][C20_Forward]_vars

\* both queries found B uncached, both refreshes failed, the first at the
\* matches read and the second at the stations read, and both have returned
C20_Witness ==
    /\ req[1].pc = "done" /\ req[1].fetch = "error" /\ req[1].tId = "B"
    /\ req[1].matchesRes = "none"
    /\ req[2].pc = "done" /\ req[2].fetch = "error" /\ req[2].tId = "B"
    /\ req[2].matchesRes = "matchesOne" /\ req[2].stationsRes = "failed"
    /\ req[1].seen = "uncached" /\ req[2].seen = "uncached"
    /\ req[2].ret = EmptySnapshot

====
